---- MODULE Spec2Model ----
(***************************************************************************)
(* hrmm: the metric fetch / filter / print pipeline.                       *)
(*                                                                         *)
(* Strings whose bytes matter (metric names, label names and values,       *)
(* filter tokens, formatted numbers) are sequences of byte codes, so that  *)
(* fmt.Sprintf is concatenation and sort.Strings is a byte-wise sort.      *)
(* Help texts, type names and URLs are opaque and are TLA+ strings.        *)
(* A Go pointer (or an optional protobuf field) is a sequence of length    *)
(* 0 (nil) or 1.  A float64 is a record [cls, n]: NaN, +Inf, -Inf or the   *)
(* finite value n.                                                         *)
(***************************************************************************)
EXTENDS Integers, Sequences, FiniteSets, TLC

VARIABLES
    cmd,          \* "print" | "graph" | "none": the cobra command that runs
    urls,         \* cmd/hrmm.go: urls
    metrics,      \* cmd/hrmm.go: metrics (the name filters)
    labels,       \* cmd/hrmm.go: labels (the label filter tokens)
    jsonOutput,   \* cmd/hrmm.go: jsonOutput
    pc,           \* "loop" | "get" | "done" | "select": position of Run
                  \* ("select": inside p.Run(), the TUI program)
    idx,          \* index into urls of the next URL of Run's loop
    fetches,      \* one record per Fetch call so far: [url, resp, results, err]
    stdout,       \* what Run printed: one chunk per loop iteration
    allMetrics,   \* graphCmd.Run's allMetrics
    fn,           \* function under test in SpecFn ("none" in Spec)
    argLabels,    \* SpecFn: the label map argument
    argOrder,     \* SpecFn: the order in which range visits the map's keys
    argTokens,    \* SpecFn: the requested label tokens
    ret,          \* SpecFn: [done, bool, str], the function's result
    argMetric,    \* SpecFn: the MetricData whose Print is called
    labelsObj,    \* SpecFn: what the map argMetric.Labels refers to holds
    printed,      \* SpecFn: the lines written by each call of Print so far
    model,        \* the tea.Model of the TUI program: Nil, or Some(model)
    nmsgs         \* the number of messages the TUI program has delivered

vars == <<cmd, urls, metrics, labels, jsonOutput, pc, idx, fetches, stdout,
          allMetrics, fn, argLabels, argOrder, argTokens, ret, argMetric,
          labelsObj, printed, model, nmsgs>>

runVars == <<cmd, urls, metrics, labels, jsonOutput, pc, idx, fetches, stdout,
             allMetrics, model, nmsgs>>

tuiVars == <<model, nmsgs>>

fnVars == <<fn, argLabels, argOrder, argTokens, ret, argMetric, labelsObj,
            printed>>

(***************************************************************************)
(* Bounds of the model.                                                    *)
(***************************************************************************)
MaxUrls == 2

MaxTokens == 2

\* how often one sample is serialized
MaxPrints == 2

\* how many messages the TUI program delivers
MaxMsgs == 4

(***************************************************************************)
(* Byte codes the code's format strings use.                               *)
(***************************************************************************)
CharEquals == 61

CharQuote == 34

CharComma == 44

CharZero == 48

StatusOK == 200

\* the Timeout of the http.Client that New builds, in seconds: the zero
\* value of &http.Client{}, which net/http reads as "no timeout"
ClientTimeout == 0

Nil == <<>>

Some(x) == <<x>>

(***************************************************************************)
(* float64 values and their formatting.                                    *)
(***************************************************************************)
NaN == [cls |-> "nan", n |-> 0]

PosInf == [cls |-> "+inf", n |-> 0]

NegInf == [cls |-> "-inf", n |-> 0]

Fin(n) == [cls |-> "fin", n |-> n]

IsNaN(f) == f.cls = "nan"

IsInf(f) == f.cls \in {"+inf", "-inf"}

RECURSIVE Digits(_)
\* %d of an unsigned integer: its decimal digits
Digits(n) ==
    IF n < 10 THEN <<CharZero + n>>
    ELSE Digits(n \div 10) \o <<CharZero + (n % 10)>>

\* %g of a float64 (finite values of the model are naturals)
FormatG(f) ==
    CASE f.cls = "nan" -> <<78, 97, 78>>
      [] f.cls = "+inf" -> <<43, 73, 110, 102>>
      [] f.cls = "-inf" -> <<45, 73, 110, 102>>
      [] OTHER -> Digits(f.n)

\* encoding/json's Marshal of a float64: NaN and the infinities are an
\* UnsupportedValueError
JsonMarshalFloat(f) ==
    IF f.cls = "fin" THEN [err |-> FALSE, bytes |-> Digits(f.n)]
    ELSE [err |-> TRUE, bytes |-> <<>>]

MarshalJSON_NoNaNCheck(nf) == JsonMarshalFloat(nf)

\* NullableFloat64.MarshalJSON
MarshalJSON(nf) ==
    IF IsNaN(nf) THEN [err |-> FALSE, bytes |-> <<110, 117, 108, 108>>]
    ELSE JsonMarshalFloat(nf)

(***************************************************************************)
(* Strings: comparison, sort.Strings, strings.Join.                        *)
(***************************************************************************)
RECURSIVE StrLess(_, _)
\* Go's s < t on strings: byte-wise lexicographic
StrLess(s, t) ==
    IF s = <<>> THEN t # <<>>
    ELSE IF t = <<>> THEN FALSE
    ELSE IF Head(s) # Head(t) THEN Head(s) < Head(t)
    ELSE StrLess(Tail(s), Tail(t))

RECURSIVE Insert(_, _)
Insert(x, s) ==
    IF s = <<>> THEN <<x>>
    ELSE IF StrLess(Head(s), x) THEN <<Head(s)>> \o Insert(x, Tail(s))
    ELSE <<x>> \o s

RECURSIVE SortStrings(_)
\* sort.Strings
SortStrings(s) ==
    IF s = <<>> THEN <<>> ELSE Insert(Head(s), SortStrings(Tail(s)))

RECURSIVE Join(_, _)
\* strings.Join
Join(elems, sep) ==
    IF elems = <<>> THEN <<>>
    ELSE IF Len(elems) = 1 THEN elems[1]
    ELSE elems[1] \o sep \o Join(Tail(elems), sep)

\* slices.Contains
Contains(s, x) == \E k \in 1..Len(s) : s[k] = x

Reverse(s) == [k \in 1..Len(s) |-> s[Len(s) + 1 - k]]

\* strings.ToUpper / strings.ToLower on the type names
ToUpper(t) ==
    CASE t \in {"COUNTER", "counter"} -> "COUNTER"
      [] t \in {"GAUGE", "gauge"} -> "GAUGE"
      [] t \in {"SUMMARY", "summary"} -> "SUMMARY"
      [] t \in {"UNTYPED", "untyped"} -> "UNTYPED"
      [] t \in {"HISTOGRAM", "histogram"} -> "HISTOGRAM"
      [] OTHER -> t

ToLower(t) ==
    CASE t \in {"COUNTER", "counter"} -> "counter"
      [] t \in {"GAUGE", "gauge"} -> "gauge"
      [] t \in {"SUMMARY", "summary"} -> "summary"
      [] t \in {"UNTYPED", "untyped"} -> "untyped"
      [] t \in {"HISTOGRAM", "histogram"} -> "histogram"
      [] OTHER -> t

(***************************************************************************)
(* Range over a Go map.  The order is unspecified: an iteration order is   *)
(* a sequence that lists every key once.                                   *)
(***************************************************************************)
Orders(S) ==
    {o \in [1..Cardinality(S) -> S] : \A a, b \in DOMAIN o : a # b => o[a] # o[b]}

RECURSIVE AscendingKeys(_)
AscendingKeys(S) ==
    IF S = {} THEN <<>>
    ELSE LET m == CHOOSE x \in S : \A y \in S \ {x} : StrLess(x, y)
         IN  <<m>> \o AscendingKeys(S \ {m})

\* the two iteration orders Run's steps draw from: both relative orders of
\* every two keys happen
RangeOrder(S, rev) == IF rev THEN Reverse(AscendingKeys(S)) ELSE AscendingKeys(S)

(***************************************************************************)
(* internal/fetcher: the label filter.                                     *)
(***************************************************************************)
hasMatchingLabels_AllTokens(metricLabels, requestedLabels) ==
    \A k \in 1..Len(requestedLabels) :
        \/ requestedLabels[k] \in DOMAIN metricLabels
        \/ \E key \in DOMAIN metricLabels :
              requestedLabels[k] = key \o <<CharEquals>> \o metricLabels[key]

\* the first requested label that matches returns true; no match: false
hasMatchingLabels(metricLabels, requestedLabels) ==
    \E k \in 1..Len(requestedLabels) :
        LET requestedLabel == requestedLabels[k]
        IN  \/ requestedLabel \in DOMAIN metricLabels
            \/ \E key \in DOMAIN metricLabels :
                  \/ requestedLabel = key
                  \/ requestedLabel = key \o <<CharEquals>> \o metricLabels[key]

(***************************************************************************)
(* internal/fetcher: text output of one MetricData.  A line of output is   *)
(* a record; src is the index in the printed list of the sample a line     *)
(* was written for (0: none), set by printPrometheusFormat.                *)
(***************************************************************************)
SampleLine(name, braces, labelStr, value) ==
    [kind |-> "sample", name |-> name, braces |-> braces, labels |-> labelStr,
     value |-> value, text |-> "", src |-> 0]

CommentLine(kind, name, text) ==
    [kind |-> kind, name |-> name, braces |-> FALSE, labels |-> <<>>,
     value |-> <<>>, text |-> text, src |-> 0]

BlankLine == CommentLine("blank", <<>>, "")

\* fmt.Sprintf(`%s="%s"`, key, value)
LabelPair(key, value) ==
    key \o <<CharEquals, CharQuote>> \o value \o <<CharQuote>>

formatLabels_Unsorted(labelMap, order) ==
    IF Cardinality(DOMAIN labelMap) = 0 THEN <<>>
    ELSE Join([k \in 1..Len(order) |-> LabelPair(order[k], labelMap[order[k]])],
              <<CharComma>>)

\* order: the order in which range visits labelMap's keys
formatLabels(labelMap, order) ==
    IF Cardinality(DOMAIN labelMap) = 0 THEN <<>>
    ELSE Join(SortStrings([k \in 1..Len(order) |->
                              LabelPair(order[k], labelMap[order[k]])]),
              <<CharComma>>)

\* the map copy with one more key
MapSet(m, key, value) ==
    [x \in (DOMAIN m) \cup {key} |-> IF x = key THEN value ELSE m[x]]

LabelLe == <<108, 101>>

LabelQuantile == <<113, 117, 97, 110, 116, 105, 108, 101>>

SuffixBucket == <<95, 98, 117, 99, 107, 101, 116>>

SuffixSum == <<95, 115, 117, 109>>

SuffixCount == <<95, 99, 111, 117, 110, 116>>

printSimple(m, rev) ==
    IF Cardinality(DOMAIN m.Labels) > 0
    THEN <<SampleLine(m.Name, TRUE,
                      formatLabels(m.Labels, RangeOrder(DOMAIN m.Labels, rev)),
                      FormatG(m.Value))>>
    ELSE <<SampleLine(m.Name, FALSE, <<>>, FormatG(m.Value))>>

\* the _sum and _count lines of printHistogram and printSummary
SumCountLines(m, baseLabels) ==
    (IF m.SampleSum # Nil
     THEN <<SampleLine(m.Name \o SuffixSum, baseLabels # <<>>, baseLabels,
                       FormatG(m.SampleSum[1]))>>
     ELSE <<>>)
    \o
    (IF m.SampleCount # Nil
     THEN <<SampleLine(m.Name \o SuffixCount, baseLabels # <<>>, baseLabels,
                       Digits(m.SampleCount[1]))>>
     ELSE <<>>)

printHistogram(m, rev) ==
    LET baseLabels == formatLabels(m.Labels, RangeOrder(DOMAIN m.Labels, rev))
        BucketLine(bucket) ==
            LET bucketLabelsCopy == MapSet(m.Labels, LabelLe, FormatG(bucket.UpperBound))
                bucketLabelsStr ==
                    formatLabels(bucketLabelsCopy,
                                 RangeOrder(DOMAIN bucketLabelsCopy, rev))
            IN  IF bucketLabelsStr # <<>>
                THEN SampleLine(m.Name \o SuffixBucket, TRUE, bucketLabelsStr,
                                Digits(bucket.CumulativeCount))
                ELSE SampleLine(m.Name \o SuffixBucket, TRUE,
                                LabelPair(LabelLe, FormatG(bucket.UpperBound)),
                                Digits(bucket.CumulativeCount))
    IN  [k \in 1..Len(m.Buckets) |-> BucketLine(m.Buckets[k])]
        \o SumCountLines(m, baseLabels)

printSummary(m, rev) ==
    LET baseLabels == formatLabels(m.Labels, RangeOrder(DOMAIN m.Labels, rev))
        QuantileLine(quantile) ==
            LET quantileLabelsCopy ==
                    MapSet(m.Labels, LabelQuantile, FormatG(quantile.Quantile))
                quantileLabelsStr ==
                    formatLabels(quantileLabelsCopy,
                                 RangeOrder(DOMAIN quantileLabelsCopy, rev))
            IN  IF quantileLabelsStr # <<>>
                THEN SampleLine(m.Name, TRUE, quantileLabelsStr,
                                FormatG(quantile.Value))
                ELSE SampleLine(m.Name, TRUE,
                                LabelPair(LabelQuantile, FormatG(quantile.Quantile)),
                                FormatG(quantile.Value))
    IN  [k \in 1..Len(m.Quantiles) |-> QuantileLine(m.Quantiles[k])]
        \o SumCountLines(m, baseLabels)

\* MetricData.Print (Print is TLC's own operator: the method keeps its
\* receiver's name here)
MetricDataPrint(m, rev) ==
    CASE ToUpper(m.Type) = "HISTOGRAM" -> printHistogram(m, rev)
      [] ToUpper(m.Type) = "SUMMARY" -> printSummary(m, rev)
      [] OTHER -> printSimple(m, rev)

(***************************************************************************)
(* The same, with the map that m.Labels refers to as an object: a Go map   *)
(* is a reference, so bucketLabels := m.Labels is the sample's own map and *)
(* a write through it would stay after Print returns.  obj is what the     *)
(* object holds; the result is the lines written and what it holds then.   *)
(***************************************************************************)
SetInPlace(obj, key, value) ==
    [orig |-> MapSet(obj, key, value), written |-> MapSet(obj, key, value)]

\* bucketLabelsCopy is a new map with the entries of m.Labels, and the key
\* is set in the copy: [orig: the sample's map, written: the map written to]
SetOnCopy(obj, key, value) ==
    [orig |-> obj, written |-> MapSet(obj, key, value)]

RECURSIVE LabelledLines(_, _, _, _, _, _)
\* the loop over the buckets (quantiles) from index k on: items are
\* <<value of the le (quantile) label, value of the line>>
LabelledLines(name, key, items, k, obj, rev) ==
    IF k > Len(items) THEN [lines |-> <<>>, labels |-> obj]
    ELSE LET w == SetOnCopy(obj, key, items[k][1])
             str == formatLabels(w.written, RangeOrder(DOMAIN w.written, rev))
             line == IF str # <<>> THEN SampleLine(name, TRUE, str, items[k][2])
                     ELSE SampleLine(name, TRUE, LabelPair(key, items[k][1]),
                                     items[k][2])
             more == LabelledLines(name, key, items, k + 1, w.orig, rev)
         IN  [lines |-> <<line>> \o more.lines, labels |-> more.labels]

\* m.Print(buf), m.Labels referring to the object obj
PrintOnObject(m, obj, rev) ==
    LET baseLabels == formatLabels(obj, RangeOrder(DOMAIN obj, rev))
        here == [m EXCEPT !.Labels = obj]
    IN  CASE ToUpper(m.Type) = "HISTOGRAM" ->
               LET items == [k \in 1..Len(m.Buckets) |->
                                <<FormatG(m.Buckets[k].UpperBound),
                                  Digits(m.Buckets[k].CumulativeCount)>>]
                   loop == LabelledLines(m.Name \o SuffixBucket, LabelLe, items, 1,
                                         obj, rev)
               IN  [lines |-> loop.lines \o SumCountLines(here, baseLabels),
                    labels |-> loop.labels]
          [] ToUpper(m.Type) = "SUMMARY" ->
               LET items == [k \in 1..Len(m.Quantiles) |->
                                <<FormatG(m.Quantiles[k].Quantile),
                                  FormatG(m.Quantiles[k].Value)>>]
                   loop == LabelledLines(m.Name, LabelQuantile, items, 1, obj, rev)
               IN  [lines |-> loop.lines \o SumCountLines(here, baseLabels),
                    labels |-> loop.labels]
          [] OTHER -> [lines |-> printSimple(here, rev), labels |-> obj]

(***************************************************************************)
(* internal/fetcher: Fetch.  The parsed document is what expfmt's          *)
(* TextToMetricFamilies hands back: families with their metrics, whose     *)
(* optional fields (sample_count, sample_sum) are set only when the        *)
(* document has the series.  A family is                                   *)
(*   [name, help, type, metric],  a metric is                              *)
(*   [label, counter, gauge, untyped, histogram, summary]                  *)
(* with label a sequence of [name, value] and the other fields pointers.   *)
(***************************************************************************)
\* labels[labelPair.GetName()] = labelPair.GetValue(), in the list's order
ExtractLabels(metric) ==
    LET lp == metric.label
    IN  [key \in {lp[k].name : k \in 1..Len(lp)} |->
            LET last == CHOOSE k \in 1..Len(lp) :
                            /\ lp[k].name = key
                            /\ \A j \in 1..Len(lp) : lp[j].name = key => j <= k
            IN  lp[last].value]

\* GetSampleCount / GetSampleSum of a Histogram or Summary: the zero value
\* when the field is not set
GetSampleCount(h) == IF h.sample_count = Nil THEN 0 ELSE h.sample_count[1]

GetSampleSum(h) == IF h.sample_sum = Nil THEN Fin(0) ELSE h.sample_sum[1]

ToBuckets(h) ==
    [k \in 1..Len(h.bucket) |->
        [UpperBound |-> h.bucket[k].upper_bound,
         CumulativeCount |-> h.bucket[k].cumulative_count]]

ToQuantiles(h) ==
    [k \in 1..Len(h.quantile) |->
        [Quantile |-> h.quantile[k].quantile, Value |-> h.quantile[k].value]]

\* the MetricData Fetch builds for one metric of a family
NewMetricData(family, metric) ==
    LET base == [Name |-> family.name, Help |-> family.help, Type |-> family.type,
                 Labels |-> ExtractLabels(metric), Value |-> Fin(0),
                 SampleCount |-> Nil, SampleSum |-> Nil,
                 Buckets |-> <<>>, Quantiles |-> <<>>]
    IN  CASE family.type = "COUNTER" ->
               IF metric.counter # Nil
               THEN [base EXCEPT !.Value = metric.counter[1]] ELSE base
          [] family.type = "GAUGE" ->
               IF metric.gauge # Nil
               THEN [base EXCEPT !.Value = metric.gauge[1]] ELSE base
          [] family.type = "HISTOGRAM" ->
               IF metric.histogram # Nil
               THEN [base EXCEPT
                        !.SampleCount = Some(GetSampleCount(metric.histogram[1])),
                        !.SampleSum = Some(GetSampleSum(metric.histogram[1])),
                        !.Buckets = ToBuckets(metric.histogram[1])]
               ELSE base
          [] family.type = "SUMMARY" ->
               IF metric.summary # Nil
               THEN [base EXCEPT
                        !.SampleCount = Some(GetSampleCount(metric.summary[1])),
                        !.SampleSum = Some(GetSampleSum(metric.summary[1])),
                        !.Quantiles = ToQuantiles(metric.summary[1])]
               ELSE base
          [] family.type = "UNTYPED" ->
               IF metric.untyped # Nil
               THEN [base EXCEPT !.Value = metric.untyped[1]] ELSE base
          [] OTHER -> base

RECURSIVE FamilyResults(_, _, _)
\* the inner loop of Fetch: the metrics of one family that pass the label filter
FamilyResults(family, ms, mfLabels) ==
    IF ms = <<>> THEN <<>>
    ELSE LET metric == Head(ms)
             rest == FamilyResults(family, Tail(ms), mfLabels)
         IN  IF Len(mfLabels) > 0
                  /\ ~hasMatchingLabels(ExtractLabels(metric), mfLabels)
             THEN rest
             ELSE <<NewMetricData(family, metric)>> \o rest

RECURSIVE FilterFamilies_NoNameFilter(_, _, _, _)
FilterFamilies_NoNameFilter(fams, order, mfMetrics, mfLabels) ==
    IF order = <<>> THEN <<>>
    ELSE FamilyResults(fams[Head(order)], fams[Head(order)].metric, mfLabels)
         \o FilterFamilies_NoNameFilter(fams, Tail(order), mfMetrics, mfLabels)

RECURSIVE FilterFamilies(_, _, _, _)
\* the outer loop of Fetch; order is the order in which range visits
\* metricFamilies (indices into fams)
FilterFamilies(fams, order, mfMetrics, mfLabels) ==
    IF order = <<>> THEN <<>>
    ELSE LET family == fams[Head(order)]
             rest == FilterFamilies(fams, Tail(order), mfMetrics, mfLabels)
         IN  IF Len(mfMetrics) > 0 /\ ~Contains(mfMetrics, family.name)
             THEN rest
             ELSE FamilyResults(family, family.metric, mfLabels) \o rest

FetchError(kind, code, url) == [kind |-> kind, code |-> code, url |-> url]

Fetch_ClientErrorsOnly(url, mfMetrics, mfLabels, response, order) ==
    IF response.neterr
    THEN [results |-> <<>>, err |-> Some(FetchError("network", 0, url))]
    ELSE IF response.status >= 400
    THEN [results |-> <<>>,
          err |-> Some(FetchError("status", response.status, url))]
    ELSE IF response.parseErr
    THEN [results |-> <<>>, err |-> Some(FetchError("parse", 0, ""))]
    ELSE [results |-> FilterFamilies(response.fams, order, mfMetrics, mfLabels),
          err |-> Nil]

Fetch_PartialOnParseError(url, mfMetrics, mfLabels, response, order) ==
    IF response.neterr
    THEN [results |-> <<>>, err |-> Some(FetchError("network", 0, url))]
    ELSE IF response.status # StatusOK
    THEN [results |-> <<>>,
          err |-> Some(FetchError("status", response.status, url))]
    ELSE [results |-> FilterFamilies(response.fams, order, mfMetrics, mfLabels),
          err |-> IF response.parseErr
                  THEN Some(FetchError("parse", 0, "")) ELSE Nil]

\* MetricsFetcher.Fetch: [results, err].  response is what the GET and the
\* parser give: [neterr, status, parseErr, fams]; with parseErr, fams are the
\* families of the lines before the malformed one.
Fetch(url, mfMetrics, mfLabels, response, order) ==
    IF response.neterr
    THEN [results |-> <<>>, err |-> Some(FetchError("network", 0, url))]
    ELSE IF response.status # StatusOK
    THEN [results |-> <<>>,
          err |-> Some(FetchError("status", response.status, url))]
    ELSE IF response.parseErr
    THEN [results |-> <<>>, err |-> Some(FetchError("parse", 0, ""))]
    ELSE [results |-> FilterFamilies(response.fams, order, mfMetrics, mfLabels),
          err |-> Nil]

(***************************************************************************)
(* encoding/json over []MetricData, as the struct tags have it.            *)
(***************************************************************************)
\* the float fields json.MarshalIndent marshals for one MetricData
FloatFields(m) ==
    {m.Value}
    \cup {m.SampleSum[k] : k \in 1..Len(m.SampleSum)}
    \cup {m.Buckets[k].UpperBound : k \in 1..Len(m.Buckets)}
    \cup {m.Quantiles[k].Quantile : k \in 1..Len(m.Quantiles)}
    \cup {m.Quantiles[k].Value : k \in 1..Len(m.Quantiles)}

JsonObject(m) ==
    [name |-> m.Name,
     help |-> IF m.Help = "" THEN Nil ELSE Some(m.Help),
     type |-> IF m.Type = "" THEN Nil ELSE Some(m.Type),
     labels |-> m.Labels,
     value |-> MarshalJSON(m.Value).bytes,
     sample_count |-> IF m.SampleCount = Nil THEN Nil
                      ELSE Some(Digits(m.SampleCount[1])),
     sample_sum |-> IF m.SampleSum = Nil THEN Nil
                    ELSE Some(MarshalJSON(m.SampleSum[1]).bytes),
     buckets |-> [k \in 1..Len(m.Buckets) |->
                     [upper_bound |-> MarshalJSON(m.Buckets[k].UpperBound).bytes,
                      cumulative_count |-> Digits(m.Buckets[k].CumulativeCount)]],
     quantiles |-> [k \in 1..Len(m.Quantiles) |->
                     [quantile |-> MarshalJSON(m.Quantiles[k].Quantile).bytes,
                      value |-> MarshalJSON(m.Quantiles[k].Value).bytes]]]

\* json.MarshalIndent(metricsData, "", "  "): [err, doc]
MarshalIndent(md) ==
    IF \E k \in 1..Len(md) : \E f \in FloatFields(md[k]) : MarshalJSON(f).err
    THEN [err |-> TRUE, doc |-> <<>>]
    ELSE [err |-> FALSE, doc |-> [k \in 1..Len(md) |-> JsonObject(md[k])]]

(***************************************************************************)
(* cmd: printPrometheusFormat.                                             *)
(***************************************************************************)
\* metricGroups[name]: the metrics of that name in the list's order, as
\* indices into the list
GroupIndices(md, name) ==
    LET S == {k \in 1..Len(md) : md[k].Name = name}
        F[n \in 0..Len(md)] ==
            IF n = 0 THEN <<>>
            ELSE IF n \in S THEN Append(F[n - 1], n) ELSE F[n - 1]
    IN  F[Len(md)]

\* metricMeta[name]: the first metric of that name
MetricMeta(md, name) == md[GroupIndices(md, name)[1]]

RECURSIVE PrintGroup(_, _, _)
PrintGroup(md, group, rev) ==
    IF group = <<>> THEN <<>>
    ELSE LET k == Head(group)
             out == MetricDataPrint(md[k], rev)
         IN  [j \in 1..Len(out) |-> [out[j] EXCEPT !.src = k]]
             \o PrintGroup(md, Tail(group), rev)

\* what the loop over metricNames writes for metricNames[i]
PrintFamily(md, metricNames, i, rev) ==
    LET name == metricNames[i]
        meta == MetricMeta(md, name)
    IN  (IF i > 1 THEN <<BlankLine>> ELSE <<>>)
        \o (IF meta.Help # "" THEN <<CommentLine("help", name, meta.Help)>>
            ELSE <<>>)
        \o (IF meta.Type # ""
            THEN <<CommentLine("type", name, ToLower(meta.Type))>> ELSE <<>>)
        \o PrintGroup(md, GroupIndices(md, name), rev)

RECURSIVE PrintFamilies(_, _, _, _)
PrintFamilies(md, metricNames, i, rev) ==
    IF i > Len(metricNames) THEN <<>>
    ELSE PrintFamily(md, metricNames, i, rev)
         \o PrintFamilies(md, metricNames, i + 1, rev)

printPrometheusFormat_NamesUnsorted(md, rev) ==
    PrintFamilies(md, RangeOrder({md[k].Name : k \in 1..Len(md)}, rev), 1, rev)

\* the lines written for the list md; rev: the direction in which range
\* visits the maps
printPrometheusFormat(md, rev) ==
    LET metricNames ==
            SortStrings(RangeOrder({md[k].Name : k \in 1..Len(md)}, rev))
    IN  PrintFamilies(md, metricNames, 1, rev)

(***************************************************************************)
(* The inputs: documents a metrics endpoint may serve, as parsed, and      *)
(* the command lines.                                                      *)
(***************************************************************************)
NameA == <<97>>

NameA1 == <<97, 49>>

NameB == <<98>>

NameS == <<115>>

NameU == <<117>>

KeyC == <<99>>

KeyM == <<109>>

ValP == <<112>>

ValG == <<103>>

Val2 == <<50>>

Val4 == <<52>>

Pair(name, value) == [name |-> name, value |-> value]

Metric(label, type, payload) ==
    [label |-> label,
     counter |-> IF type = "COUNTER" THEN Some(payload) ELSE Nil,
     gauge |-> IF type = "GAUGE" THEN Some(payload) ELSE Nil,
     untyped |-> IF type = "UNTYPED" THEN Some(payload) ELSE Nil,
     histogram |-> IF type = "HISTOGRAM" THEN Some(payload) ELSE Nil,
     summary |-> IF type = "SUMMARY" THEN Some(payload) ELSE Nil]

Bucket(bound, count) == [upper_bound |-> bound, cumulative_count |-> count]

Quantile(q, v) == [quantile |-> q, value |-> v]

Histogram(count, sum, bucket) ==
    [sample_count |-> count, sample_sum |-> sum, bucket |-> bucket]

Summary(count, sum, quantile) ==
    [sample_count |-> count, sample_sum |-> sum, quantile |-> quantile]

Family(name, help, type, metric) ==
    [name |-> name, help |-> help, type |-> type, metric |-> metric]

\* b{m="p",c="2"} 7 and b{m="g",c="4"} 3
FamCounter ==
    Family(NameB, "requests", "COUNTER",
           <<Metric(<<Pair(KeyM, ValP), Pair(KeyC, Val2)>>, "COUNTER", Fin(7)),
             Metric(<<Pair(KeyM, ValG), Pair(KeyC, Val4)>>, "COUNTER", Fin(3))>>)

\* a1 NaN, with no HELP line
FamGauge == Family(NameA1, "", "GAUGE", <<Metric(<<>>, "GAUGE", NaN)>>)

\* a complete histogram without labels
FamHistogram ==
    Family(NameA, "latency", "HISTOGRAM",
           <<Metric(<<>>, "HISTOGRAM",
                    Histogram(Some(12), Some(Fin(5)),
                              <<Bucket(Fin(1), 10), Bucket(PosInf, 12)>>))>>)

\* a document that lists le="2" before le="1"
FamHistogramUnordered ==
    Family(NameA, "latency", "HISTOGRAM",
           <<Metric(<<Pair(KeyM, ValP)>>, "HISTOGRAM",
                    Histogram(Some(3), Some(Fin(5)),
                              <<Bucket(Fin(2), 2), Bucket(Fin(1), 1),
                                Bucket(PosInf, 3)>>))>>)

\* a document with _bucket lines only: no _sum, no _count
FamHistogramBare ==
    Family(NameA, "", "HISTOGRAM",
           <<Metric(<<Pair(KeyC, Val2)>>, "HISTOGRAM",
                    Histogram(Nil, Nil, <<Bucket(Fin(1), 1)>>))>>)

\* a summary with quantiles 0 and 1 and a _count, no _sum
FamSummary ==
    Family(NameS, "rpc", "SUMMARY",
           <<Metric(<<Pair(KeyM, ValG)>>, "SUMMARY",
                    Summary(Some(2), Nil,
                            <<Quantile(Fin(0), Fin(4)), Quantile(Fin(1), Fin(9))>>))>>)

\* no TYPE line: untyped
FamUntyped ==
    Family(NameU, "", "UNTYPED",
           <<Metric(<<Pair(KeyC, Val2)>>, "UNTYPED", Fin(8)),
             Metric(<<>>, "UNTYPED", Fin(0))>>)

NameQ == <<113>>

\* label values that need escaping in the text format: q{m="\""} 1,
\* q{m="\\"} 2 and q{m="\n"} 3, parsed: a double quote, a backslash, a
\* newline
FamEscapes ==
    Family(NameQ, "", "COUNTER",
           <<Metric(<<Pair(KeyM, <<34>>)>>, "COUNTER", Fin(1)),
             Metric(<<Pair(KeyM, <<92>>)>>, "COUNTER", Fin(2)),
             Metric(<<Pair(KeyM, <<10>>)>>, "COUNTER", Fin(3))>>)

Bodies ==
    { <<>>,
      <<FamCounter>>,
      <<FamCounter, FamGauge>>,
      <<FamHistogram, FamCounter>>,
      <<FamHistogramUnordered>>,
      <<FamHistogramBare, FamGauge>>,
      <<FamSummary, FamUntyped>>,
      <<FamEscapes>> }

Response(neterr, status, parseErr, fams) ==
    [neterr |-> neterr, status |-> status, parseErr |-> parseErr, fams |-> fams]

Responses ==
    {Response(TRUE, 0, FALSE, <<>>)}
    \cup {Response(FALSE, st, FALSE, <<FamCounter, FamGauge>>) : st \in {204, 404, 503}}
    \cup {Response(FALSE, StatusOK, TRUE, fams) : fams \in {<<>>, <<FamCounter>>}}
    \cup {Response(FALSE, StatusOK, FALSE, fams) : fams \in Bodies}

UrlLists == {[k \in 1..n |-> IF k = 1 THEN "u1" ELSE IF k = 2 THEN "u2" ELSE "u3"] :
                n \in 1..MaxUrls}

NameFilters == {<<>>, <<NameB>>, <<NameA, NameA1>>}

\* --label m, --label m=p, --label c --label m=g
LabelFilters ==
    {<<>>, <<KeyM>>, <<KeyM \o <<CharEquals>> \o ValP>>,
     <<KeyC, KeyM \o <<CharEquals>> \o ValG>>}

(***************************************************************************)
(* cmd: printCmd.Run and graphCmd.Run, one action per iteration of the     *)
(* loop over urls.                                                         *)
(***************************************************************************)
Chunk(kind, url, e, doc, lines) ==
    [kind |-> kind, url |-> url, err |-> e, doc |-> doc, lines |-> lines]

\* what one iteration of printCmd.Run's loop prints
PrintChunk(url, f, json, rev) ==
    IF f.err # Nil
    THEN Chunk("fetcherr", url, f.err, <<>>, <<>>)
    ELSE IF json
    THEN LET j == MarshalIndent(f.results)
         IN  IF j.err THEN Chunk("jsonerr", "", Nil, <<>>, <<>>)
             ELSE Chunk("json", "", Nil, j.doc, <<>>)
    ELSE Chunk("text", "", Nil, <<>>, printPrometheusFormat(f.results, rev))

FnIdle ==
    /\ fn = "none"
    /\ argLabels = <<>>
    /\ argOrder = <<>>
    /\ argTokens = <<>>
    /\ ret = [done |-> FALSE, bool |-> FALSE, str |-> <<>>]
    /\ argMetric = <<>>
    /\ labelsObj = <<>>
    /\ printed = <<>>

Init ==
    /\ cmd \in {"print", "graph"}
    /\ urls \in UrlLists
    /\ metrics \in NameFilters
    /\ labels \in LabelFilters
    /\ jsonOutput \in (IF cmd = "print" THEN BOOLEAN ELSE {FALSE})
    /\ pc = "loop"
    /\ idx = 1
    /\ fetches = <<>>
    /\ stdout = <<>>
    /\ allMetrics = <<>>
    /\ model = Nil
    /\ nmsgs = 0
    /\ FnIdle

PrintRunStep ==
    /\ cmd = "print"
    /\ pc = "loop"
    /\ idx <= Len(urls)
    /\ \E response \in Responses, rev \in BOOLEAN :
         \E order \in Orders(1..Len(response.fams)) :
            LET url == urls[idx]
                f == Fetch(url, metrics, labels, response, order)
            IN  /\ fetches' = Append(fetches,
                                     [url |-> url, resp |-> response,
                                      results |-> f.results, err |-> f.err])
                /\ stdout' = Append(stdout, PrintChunk(url, f, jsonOutput, rev))
    /\ idx' = idx + 1
    /\ pc' = IF idx = Len(urls) THEN "done" ELSE "loop"
    /\ UNCHANGED <<cmd, urls, metrics, labels, jsonOutput, allMetrics>>
    /\ UNCHANGED tuiVars
    /\ UNCHANGED fnVars

GraphRunStep ==
    /\ cmd = "graph"
    /\ pc = "loop"
    /\ idx <= Len(urls)
    /\ \E response \in Responses :
         \E order \in Orders(1..Len(response.fams)) :
            LET url == urls[idx]
                f == Fetch(url, metrics, labels, response, order)
            IN  /\ fetches' = Append(fetches,
                                     [url |-> url, resp |-> response,
                                      results |-> f.results, err |-> f.err])
                /\ IF f.err # Nil
                   THEN /\ stdout' = Append(stdout,
                                            Chunk("fetcherr", url, f.err, <<>>, <<>>))
                        /\ allMetrics' = allMetrics
                   ELSE /\ stdout' = stdout
                        /\ allMetrics' = allMetrics \o f.results
    /\ idx' = idx + 1
    /\ UNCHANGED <<cmd, urls, metrics, labels, jsonOutput, pc>>
    /\ UNCHANGED tuiVars
    /\ UNCHANGED fnVars

(***************************************************************************)
(* cmd: the TUI of graphCmd.  The tea program delivers messages to the     *)
(* Update of its current model, first the metricSelectionModel, and takes  *)
(* the model Update returns as the next one.  Go indices start at 0:       *)
(* index i of m.metrics is metrics[i + 1] here.                            *)
(***************************************************************************)
headerHeight == 3

footerHeight == 2

Max(a, b) == IF a >= b THEN a ELSE b

Min(a, b) == IF a <= b THEN a ELSE b

\* msg.String() of the key messages: the keys of the two Update switches and
\* a key neither of them names
Keys == {"ctrl+c", "q", "up", "k", "down", "j", " ", "enter", "esc", "x"}

\* terminal sizes: <<Width, Height>>
WindowSizes == {<<80, 24>>, <<20, 6>>}

KeyMsg(key) == [type |-> "key", key |-> key, Width |-> 0, Height |-> 0]

WindowSizeMsg(w, h) == [type |-> "size", key |-> "", Width |-> w, Height |-> h]

Msgs ==
    {KeyMsg(key) : key \in Keys}
    \cup {WindowSizeMsg(size[1], size[2]) : size \in WindowSizes}

\* viewport.Model: its zero value, and viewport.New; lines is the number of
\* lines of the content
ZeroViewport ==
    [Width |-> 0, Height |-> 0, YOffset |-> 0, YPosition |-> 0, lines |-> 0]

viewportNew(w, h) == [ZeroViewport EXCEPT !.Width = w, !.Height = h]

\* &metricSelectionModel{metrics: allMetrics, selected: make(map[int]bool)}
NewSelectionModel(ms) ==
    [screen |-> "select", metrics |-> ms, cursor |-> 0, selected |-> <<>>,
     quitting |-> FALSE, viewport |-> ZeroViewport]

\* m.selected[i]: false for a key the map does not have
IsSelected(m, i) == i \in DOMAIN m.selected /\ m.selected[i]

\* SetContent of one line per metric, each ending in a newline, and the
\* scroll that keeps the cursor visible
updateViewportContent(m) ==
    IF m.viewport.Width = 0 THEN m
    ELSE LET v == m.viewport
             y == IF m.cursor < v.YOffset THEN m.cursor
                  ELSE IF m.cursor >= v.YOffset + v.Height
                  THEN m.cursor - v.Height + 1
                  ELSE v.YOffset
         IN  [m EXCEPT !.viewport.lines = Len(m.metrics) + 1,
                       !.viewport.YOffset = y]

\* m.viewport.Update(msg): the viewport's own key map scrolls by a line on
\* up/k and down/j and by a page on space, between the top and the last
\* page; a viewport that New has not made has no key map
viewportUpdate(v, msg) ==
    LET maxY == Max(0, v.lines - v.Height)
        scroll(y) == IF v.YOffset >= maxY /\ y > v.YOffset THEN v
                     ELSE IF v.YOffset <= 0 /\ y < v.YOffset THEN v
                     ELSE [v EXCEPT !.YOffset = Max(0, Min(y, maxY))]
    IN  IF msg.type # "key" \/ v.Width = 0 THEN v
        ELSE CASE msg.key \in {"up", "k"} -> scroll(v.YOffset - 1)
               [] msg.key \in {"down", "j"} -> scroll(v.YOffset + 1)
               [] msg.key = " " -> scroll(v.YOffset + v.Height)
               [] OTHER -> v

\* the end of metricSelectionModel.Update: the viewport sees the message,
\* the model stays
ViewportStep(m, msg) ==
    [model |-> [m EXCEPT !.viewport = viewportUpdate(m.viewport, msg)],
     cmd |-> "none"]

\* case "up", "k"
CursorUp(m) ==
    IF m.cursor > 0 THEN updateViewportContent([m EXCEPT !.cursor = @ - 1])
    ELSE m

CursorDown_Unguarded(m) == updateViewportContent([m EXCEPT !.cursor = @ + 1])

\* case "down", "j"
CursorDown(m) ==
    IF m.cursor < Len(m.metrics) - 1
    THEN updateViewportContent([m EXCEPT !.cursor = @ + 1])
    ELSE m

\* case " "
ToggleSelection(m) ==
    updateViewportContent(
        [m EXCEPT !.selected = MapSet(@, m.cursor, ~IsSelected(m, m.cursor))])

\* case "enter": the names of the selected metrics, in list order
SelectedMetrics(m) ==
    LET F[i \in 0..Len(m.metrics)] ==
            IF i = 0 THEN <<>>
            ELSE IF IsSelected(m, i - 1) THEN Append(F[i - 1], m.metrics[i].Name)
            ELSE F[i - 1]
    IN  F[Len(m.metrics)]

initialGraphModel(selectedMetrics) ==
    [screen |-> "graph", selectedMetrics |-> selectedMetrics, quitting |-> FALSE]

\* metricSelectionModel.Update: [model, cmd], cmd "quit" for tea.Quit
metricSelectionUpdate(m, msg) ==
    IF msg.type = "size"
    THEN LET verticalMarginHeight == headerHeight + footerHeight
             sized ==
                 IF m.viewport.Width = 0
                 THEN updateViewportContent(
                          [m EXCEPT !.viewport =
                              [viewportNew(msg.Width,
                                           msg.Height - verticalMarginHeight)
                                  EXCEPT !.YPosition = headerHeight]])
                 ELSE [m EXCEPT !.viewport.Width = msg.Width,
                                !.viewport.Height =
                                    msg.Height - verticalMarginHeight]
         IN  ViewportStep(sized, msg)
    ELSE CASE msg.key \in {"ctrl+c", "q"} ->
                [model |-> [m EXCEPT !.quitting = TRUE], cmd |-> "quit"]
           [] msg.key \in {"up", "k"} -> ViewportStep(CursorUp(m), msg)
           [] msg.key \in {"down", "j"} -> ViewportStep(CursorDown(m), msg)
           [] msg.key = " " -> ViewportStep(ToggleSelection(m), msg)
           [] msg.key = "enter" ->
                IF Len(SelectedMetrics(m)) > 0
                THEN [model |-> initialGraphModel(SelectedMetrics(m)),
                      cmd |-> "none"]
                ELSE ViewportStep(m, msg)
           [] OTHER -> ViewportStep(m, msg)

\* graphModel.Update
graphModelUpdate(m, msg) ==
    IF msg.type = "key" /\ msg.key \in {"ctrl+c", "q", "esc"}
    THEN [model |-> [m EXCEPT !.quitting = TRUE], cmd |-> "quit"]
    ELSE [model |-> m, cmd |-> "none"]

\* the Update of the current model
ModelUpdate(m, msg) ==
    IF m.screen = "select" THEN metricSelectionUpdate(m, msg)
    ELSE graphModelUpdate(m, msg)

\* after the loop: "No metrics found", or the selection screen starts
GraphRunEnd ==
    /\ cmd = "graph"
    /\ pc = "loop"
    /\ idx > Len(urls)
    /\ IF Len(allMetrics) = 0
       THEN /\ stdout' = Append(stdout, Chunk("nometrics", "", Nil, <<>>, <<>>))
            /\ pc' = "done"
            /\ model' = model
       ELSE /\ stdout' = stdout
            /\ pc' = "select"
            /\ model' = Some(NewSelectionModel(allMetrics))
    /\ UNCHANGED <<cmd, urls, metrics, labels, jsonOutput, idx, fetches, allMetrics,
                   nmsgs>>
    /\ UNCHANGED fnVars

\* Run calls Fetch for urls[idx] and the server accepts the connection and
\* sends nothing: client.Get waits for the response header.  New gives the
\* client no Timeout and Get passes no context, so nothing ends the wait
\* (a positive Timeout would end it with the network error of Responses).
GetBlocks ==
    /\ cmd \in {"print", "graph"}
    /\ pc = "loop"
    /\ idx <= Len(urls)
    /\ ClientTimeout = 0
    /\ pc' = "get"
    /\ UNCHANGED <<cmd, urls, metrics, labels, jsonOutput, idx, fetches, stdout,
                   allMetrics>>
    /\ UNCHANGED tuiVars
    /\ UNCHANGED fnVars

\* p.Run(): the program delivers one message to the current model; on
\* tea.Quit it stops and Run returns
TuiUpdate ==
    /\ pc = "select"
    /\ nmsgs < MaxMsgs
    /\ \E msg \in Msgs :
          LET r == ModelUpdate(model[1], msg)
          IN  /\ model' = Some(r.model)
              /\ pc' = IF r.cmd = "quit" THEN "done" ELSE "select"
    /\ nmsgs' = nmsgs + 1
    /\ UNCHANGED <<cmd, urls, metrics, labels, jsonOutput, idx, fetches, stdout,
                   allMetrics>>
    /\ UNCHANGED fnVars

\* Run up to the start of the TUI program
Next == PrintRunStep \/ GraphRunStep \/ GraphRunEnd \/ GetBlocks

Spec == Init /\ [][Next]_vars

(***************************************************************************)
(* The TUI program, from the states in which graphCmd.Run starts it: one   *)
(* URL was fetched, Fetch returned a list that is not empty, and           *)
(* GraphRunEnd made the selection model of it.                             *)
(***************************************************************************)
InitTui ==
    /\ cmd = "graph"
    /\ urls = <<"u1">>
    /\ metrics \in NameFilters
    /\ labels \in LabelFilters
    /\ jsonOutput = FALSE
    /\ pc = "select"
    /\ idx = 2
    /\ \E response \in Responses :
          \E order \in Orders(1..Len(response.fams)) :
             LET f == Fetch("u1", metrics, labels, response, order)
             IN  /\ f.err = Nil
                 /\ Len(f.results) > 0
                 /\ fetches = <<[url |-> "u1", resp |-> response,
                                 results |-> f.results, err |-> f.err]>>
                 /\ allMetrics = f.results
    /\ stdout = <<>>
    /\ model = Some(NewSelectionModel(allMetrics))
    /\ nmsgs = 0
    /\ FnIdle

NextTui == TuiUpdate

SpecTui == InitTui /\ [][NextTui]_vars

(***************************************************************************)
(* The pure functions under test: SpecFn draws the arguments in its        *)
(* initial states and applies the function.                                *)
(***************************************************************************)
FnKeys == {<<97>>, <<97, 49>>, <<98>>}

\* "x", "y", "x=y" and the empty value
FnValues == {<<120>>, <<121>>, <<120, 61, 121>>, <<>>}

FnLabelMaps == UNION {[K -> FnValues] : K \in SUBSET FnKeys}

\* a, b, a1, x, a=x, a=y, a=x=y, a=, b=x=y, =x
FnTokens ==
    {<<97>>, <<98>>, <<97, 49>>, <<120>>, <<97, 61, 120>>, <<97, 61, 121>>,
     <<97, 61, 120, 61, 121>>, <<97, 61>>, <<98, 61, 120, 61, 121>>, <<61, 120>>}

FnTokenLists == UNION {[1..n -> FnTokens] : n \in 1..MaxTokens}

RunIdle ==
    /\ cmd = "none"
    /\ urls = <<>>
    /\ metrics = <<>>
    /\ labels = <<>>
    /\ jsonOutput = FALSE
    /\ pc = "done"
    /\ idx = 1
    /\ fetches = <<>>
    /\ stdout = <<>>
    /\ allMetrics = <<>>
    /\ model = Nil
    /\ nmsgs = 0

\* the records Fetch builds for the metrics of the documents
FnMetrics ==
    UNION {UNION {{NewMetricData(body[a], body[a].metric[b]) :
                      b \in 1..Len(body[a].metric)} : a \in 1..Len(body)} :
              body \in Bodies}

InitFn ==
    /\ RunIdle
    /\ fn \in {"hasMatchingLabels", "formatLabels", "Print"}
    /\ argLabels \in (IF fn = "Print" THEN {<<>>} ELSE FnLabelMaps)
    /\ argMetric \in (IF fn = "Print" THEN FnMetrics ELSE {<<>>})
    /\ labelsObj = (IF fn = "Print" THEN argMetric.Labels ELSE <<>>)
    /\ printed = <<>>
    /\ argOrder \in (IF fn = "formatLabels" THEN Orders(DOMAIN argLabels)
                     ELSE {AscendingKeys(DOMAIN argLabels)})
    /\ argTokens \in (IF fn = "hasMatchingLabels" THEN FnTokenLists ELSE {<<>>})
    /\ ret = [done |-> FALSE, bool |-> FALSE, str |-> <<>>]

CallHasMatchingLabels ==
    /\ fn = "hasMatchingLabels"
    /\ ~ret.done
    /\ ret' = [done |-> TRUE, bool |-> hasMatchingLabels(argLabels, argTokens),
               str |-> <<>>]
    /\ UNCHANGED <<fn, argLabels, argOrder, argTokens, argMetric, labelsObj,
                   printed>>
    /\ UNCHANGED runVars

CallFormatLabels ==
    /\ fn = "formatLabels"
    /\ ~ret.done
    /\ ret' = [done |-> TRUE, bool |-> FALSE,
               str |-> formatLabels(argLabels, argOrder)]
    /\ UNCHANGED <<fn, argLabels, argOrder, argTokens, argMetric, labelsObj,
                   printed>>
    /\ UNCHANGED runVars

\* one more m.Print(&buf) of the same sample
CallPrint ==
    /\ fn = "Print"
    /\ Len(printed) < MaxPrints
    /\ \E rev \in BOOLEAN :
          LET p == PrintOnObject(argMetric, labelsObj, rev)
          IN  /\ printed' = Append(printed, p.lines)
              /\ labelsObj' = p.labels
    /\ UNCHANGED <<fn, argLabels, argOrder, argTokens, ret, argMetric>>
    /\ UNCHANGED runVars

NextFn == CallHasMatchingLabels \/ CallFormatLabels \/ CallPrint

SpecFn == InitFn /\ [][NextFn]_vars

(***************************************************************************)
(* Reading the output back: helpers of the properties.                     *)
(***************************************************************************)
\* the least index of byte c in s, Len(s) + 1 when there is none
IndexOf(s, c) ==
    IF \E k \in 1..Len(s) : s[k] = c
    THEN CHOOSE k \in 1..Len(s) : s[k] = c /\ \A j \in 1..(k - 1) : s[j] # c
    ELSE Len(s) + 1

RECURSIVE Split(_, _)
\* the pieces of s between the bytes sep
Split(s, sep) ==
    LET k == IndexOf(s, sep)
    IN  IF k > Len(s) THEN <<s>>
        ELSE <<SubSeq(s, 1, k - 1)>> \o Split(SubSeq(s, k + 1, Len(s)), sep)

\* the pairs between the braces of a line
PairsOf(labelStr) == IF labelStr = <<>> THEN <<>> ELSE Split(labelStr, CharComma)

\* key and value of a written pair key="value"
PairKey(p) == SubSeq(p, 1, IndexOf(p, CharEquals) - 1)

PairValue(p) == SubSeq(p, IndexOf(p, CharEquals) + 2, Len(p) - 1)

SeqToSet(s) == {s[k] : k \in 1..Len(s)}

\* a filter token read as the contract reads it: bare, or key=value split at
\* its first "="
TokenIsPaired(t) == IndexOf(t, CharEquals) <= Len(t)

TokenMatches(S, t) ==
    IF TokenIsPaired(t)
    THEN LET key == SubSeq(t, 1, IndexOf(t, CharEquals) - 1)
             val == SubSeq(t, IndexOf(t, CharEquals) + 1, Len(t))
         IN  key \in DOMAIN S /\ S[key] = val
    ELSE t \in DOMAIN S

\* the label map of a parsed metric (its label names are distinct)
LabelsOf(metric) ==
    [key \in {metric.label[k].name : k \in 1..Len(metric.label)} |->
        (CHOOSE lp \in SeqToSet(metric.label) : lp.name = key).value]

\* a parsed sample passes the configured filters
PassesFilters(family, metric) ==
    /\ metrics = <<>> \/ family.name \in SeqToSet(metrics)
    /\ labels = <<>> \/ \E k \in 1..Len(labels) : TokenMatches(LabelsOf(metric), labels[k])

\* the parsed samples of a response: <<family index, metric index>>
SamplesOf(response) ==
    {<<a, b>> \in (1..Len(response.fams)) \X (1..3) :
        b <= Len(response.fams[a].metric)}

Succeeded(f) == f.err = Nil

\* C1: a successful Fetch returns exactly one record for every parsed sample
\* whose family passes the name filter (empty filter: all) and whose labels
\* pass the label filter (empty filter: all), and no other record.
C1_FetchReturnsExactlyThePassingSamples ==
    \A k \in 1..Len(fetches) :
        Succeeded(fetches[k]) =>
            LET f == fetches[k]
                fams == f.resp.fams
                passing == {s \in SamplesOf(f.resp) :
                               PassesFilters(fams[s[1]], fams[s[1]].metric[s[2]])}
                recordsFor(s) ==
                    {j \in 1..Len(f.results) :
                        /\ f.results[j].Name = fams[s[1]].name
                        /\ f.results[j].Labels = LabelsOf(fams[s[1]].metric[s[2]])}
            IN  /\ \A s \in SamplesOf(f.resp) :
                      Cardinality(recordsFor(s)) = IF s \in passing THEN 1 ELSE 0
                /\ Len(f.results) = Cardinality(passing)
                /\ (metrics # <<>> /\ labels = <<>>) =>
                      Len(f.results) =
                          Cardinality({s \in SamplesOf(f.resp) :
                                          fams[s[1]].name \in SeqToSet(metrics)})

\* both filters are set, some sample passed them and some was filtered out
C1_Witness ==
    \E k \in 1..Len(fetches) :
        /\ Succeeded(fetches[k])
        /\ metrics # <<>>
        /\ labels # <<>>
        /\ Len(fetches[k].results) > 0
        /\ Len(fetches[k].results) < Cardinality(SamplesOf(fetches[k].resp))

\* C2: hasMatchingLabels(S, L) is true iff some token of L matches S: a bare
\* token when S has that key, a paired token k=v when S has key k with
\* exactly the value v; a sample without labels never matches.
C2_LabelFilterIsOrOfTokens ==
    (fn = "hasMatchingLabels" /\ ret.done) =>
        /\ ret.bool = (\E k \in 1..Len(argTokens) : TokenMatches(argLabels, argTokens[k]))
        /\ DOMAIN argLabels = {} => ~ret.bool
        /\ \A k \in 1..Len(argTokens) :
              (/\ Len(argTokens) = 1
               /\ TokenIsPaired(argTokens[k])
               /\ PairKey(argTokens[k]) \in DOMAIN argLabels
               /\ argLabels[PairKey(argTokens[k])]
                     # SubSeq(argTokens[k], IndexOf(argTokens[k], CharEquals) + 1,
                              Len(argTokens[k])))
              => ~ret.bool

\* two tokens, the first does not match and the second, a paired one, does
C2_Witness ==
    /\ fn = "hasMatchingLabels"
    /\ ret.done
    /\ ret.bool
    /\ Len(argTokens) = 2
    /\ ~TokenMatches(argLabels, argTokens[1])
    /\ TokenIsPaired(argTokens[2])
    /\ TokenMatches(argLabels, argTokens[2])
    /\ Cardinality(DOMAIN argLabels) = 2

\* C3: a response whose status is not 200 makes Fetch return an error that
\* carries the status code, and no sample.
C3_Non200IsAnErrorWithoutSamples ==
    \A k \in 1..Len(fetches) :
        LET f == fetches[k]
        IN  (~f.resp.neterr /\ f.resp.status # StatusOK) =>
                /\ f.err # Nil
                /\ f.err[1].kind = "status"
                /\ f.err[1].code = f.resp.status
                /\ f.results = <<>>

\* a 204 whose body holds samples that pass the filters
C3_Witness ==
    \E k \in 1..Len(fetches) :
        /\ ~fetches[k].resp.neterr
        /\ fetches[k].resp.status = 204
        /\ \E s \in SamplesOf(fetches[k].resp) :
              PassesFilters(fetches[k].resp.fams[s[1]],
                            fetches[k].resp.fams[s[1]].metric[s[2]])
        /\ Len(stdout) >= k

\* C4: a body that fails to parse makes Fetch return the parse error and no
\* sample, whatever was parsed before the malformed line.
C4_ParseErrorIsAllOrNothing ==
    \A k \in 1..Len(fetches) :
        LET f == fetches[k]
        IN  (~f.resp.neterr /\ f.resp.status = StatusOK /\ f.resp.parseErr) =>
                /\ f.err # Nil
                /\ f.err[1].kind = "parse"
                /\ f.results = <<>>

\* the lines before the malformed one hold samples that pass the filters
C4_Witness ==
    \E k \in 1..Len(fetches) :
        /\ ~fetches[k].resp.neterr
        /\ fetches[k].resp.status = StatusOK
        /\ fetches[k].resp.parseErr
        /\ \E s \in SamplesOf(fetches[k].resp) :
              PassesFilters(fetches[k].resp.fams[s[1]],
                            fetches[k].resp.fams[s[1]].metric[s[2]])

RECURSIVE ConcatResults(_)
\* the results of the successful Fetch calls, in call order
ConcatResults(fs) ==
    IF fs = <<>> THEN <<>>
    ELSE (IF Succeeded(Head(fs)) THEN Head(fs).results ELSE <<>>)
         \o ConcatResults(Tail(fs))

\* every URL is fetched once, in list order
C5_FetchedOnceInOrder ==
    /\ Len(fetches) = idx - 1
    /\ \A k \in 1..Len(fetches) : fetches[k].url = urls[k]
    /\ pc \notin {"loop", "get"} => Len(fetches) = Len(urls)

\* every failed Fetch has its own message, which names the URL
C5_EveryFailureReported ==
    \A k \in 1..Len(fetches) :
        ~Succeeded(fetches[k]) =>
            Cardinality({j \in 1..Len(stdout) :
                            /\ stdout[j].kind = "fetcherr"
                            /\ stdout[j].url = fetches[k].url
                            /\ stdout[j].err = fetches[k].err}) = 1

\* the chunk holds every sample of md
SamplesWritten(chunk, md) ==
    CASE chunk.kind = "text" ->
           \A j \in 1..Len(md) :
               \E n \in 1..Len(chunk.lines) :
                   chunk.lines[n].kind = "sample" /\ chunk.lines[n].src = j
      [] chunk.kind = "json" ->
           /\ Len(chunk.doc) = Len(md)
           /\ \A j \in 1..Len(md) :
                 /\ chunk.doc[j].name = md[j].Name
                 /\ chunk.doc[j].labels = md[j].Labels
      [] OTHER -> FALSE

\* the samples of every successful Fetch are output
C5_EverySuccessOutput ==
    IF cmd = "print"
    THEN /\ Len(stdout) = Len(fetches)
         /\ \A k \in 1..Len(fetches) :
               Succeeded(fetches[k]) => SamplesWritten(stdout[k], fetches[k].results)
    ELSE allMetrics = ConcatResults(fetches)

\* C5: a failed Fetch never aborts the batch: every URL of the list is
\* fetched exactly once in list order, every failing URL gets its own error
\* message naming it, and the samples of every succeeding URL are output.
C5_BatchNeverAborts ==
    /\ C5_FetchedOnceInOrder
    /\ C5_EveryFailureReported
    /\ C5_EverySuccessOutput

\* the lines of one family in a text chunk: its HELP and TYPE lines and the
\* lines of its samples
FamilyLines(md, out, name) ==
    {n \in 1..Len(out) :
        \/ out[n].kind \in {"help", "type"} /\ out[n].name = name
        \/ out[n].kind = "sample" /\ md[out[n].src].Name = name}

HeaderLines(out, kind, name) ==
    {n \in 1..Len(out) : out[n].kind = kind /\ out[n].name = name}

TextOutputGrouped(md, out) ==
    LET names == {md[k].Name : k \in 1..Len(md)}
        helpOf(name) == {md[k].Help : k \in {j \in 1..Len(md) : md[j].Name = name}}
    IN  /\ \A n \in 1..Len(out) :
              /\ out[n].kind \in {"help", "type"} => out[n].name \in names
              /\ out[n].kind = "sample" => out[n].src \in 1..Len(md)
        /\ \A k \in 1..Len(md) :
              \E n \in 1..Len(out) : out[n].kind = "sample" /\ out[n].src = k
        /\ \A name \in names :
              /\ Cardinality(HeaderLines(out, "type", name)) = 1
              /\ Cardinality(HeaderLines(out, "help", name)) =
                    IF helpOf(name) = {""} THEN 0 ELSE 1
              /\ \A h \in HeaderLines(out, "help", name) :
                    \A t \in HeaderLines(out, "type", name) : h < t
              /\ \A t \in HeaderLines(out, "type", name) :
                    \A n \in FamilyLines(md, out, name) :
                        out[n].kind = "sample" => t < n
        /\ \A n1, n2 \in names :
              StrLess(n1, n2) =>
                  \A x \in FamilyLines(md, out, n1) :
                      \A y \in FamilyLines(md, out, n2) : x < y

\* C6: printPrometheusFormat writes the families in lexicographic order of
\* their names; per family the HELP line (only with a help text) and then
\* the TYPE line once, before the family's sample lines, every sample of
\* the family, and no line of another family in between.
C6_FamiliesGroupedAndOrdered ==
    \A k \in 1..Len(stdout) :
        stdout[k].kind = "text" =>
            TextOutputGrouped(fetches[k].results, stdout[k].lines)

\* two families, the second of the document sorting first; one with a help
\* text and two samples, one without help
C6_Witness ==
    \E k \in 1..Len(stdout) :
        /\ stdout[k].kind = "text"
        /\ LET md == fetches[k].results
           IN  /\ Len(md) = 3
               /\ md[1].Name = NameB /\ md[2].Name = NameB /\ md[3].Name = NameA1
               /\ md[1].Help # "" /\ md[3].Help = ""
               /\ stdout[k].lines[1].kind = "type"
               /\ stdout[k].lines[1].name = NameA1

\* C7: the pairs formatLabels writes are sorted by label key, whatever the
\* map's iteration order, for every key set (a and a1 too).
C7_PairsSortedByKey ==
    (fn = "formatLabels" /\ ret.done) =>
        LET ps == PairsOf(ret.str)
        IN  /\ Len(ps) = Cardinality(DOMAIN argLabels)
            /\ {<<PairKey(ps[k]), PairValue(ps[k])>> : k \in 1..Len(ps)}
                  = {<<key, argLabels[key]>> : key \in DOMAIN argLabels}
            /\ \A a, b \in 1..Len(ps) :
                  a < b => StrLess(PairKey(ps[a]), PairKey(ps[b]))

\* what holds instead: the written pairs key="value" are sorted as strings
C7_PairsSortedAsStrings ==
    (fn = "formatLabels" /\ ret.done) =>
        LET ps == PairsOf(ret.str)
        IN  /\ Len(ps) = Cardinality(DOMAIN argLabels)
            /\ {<<PairKey(ps[k]), PairValue(ps[k])>> : k \in 1..Len(ps)}
                  = {<<key, argLabels[key]>> : key \in DOMAIN argLabels}
            /\ \A a, b \in 1..Len(ps) : a < b => StrLess(ps[a], ps[b])

RECURSIVE ParseNat(_)
ParseNat(s) ==
    IF s = <<>> THEN 0
    ELSE ParseNat(SubSeq(s, 1, Len(s) - 1)) * 10 + (s[Len(s)] - CharZero)

\* the float a written number stands for
ParseFloat(s) ==
    CASE s = <<78, 97, 78>> -> NaN
      [] s = <<43, 73, 110, 102>> -> PosInf
      [] s = <<45, 73, 110, 102>> -> NegInf
      [] OTHER -> Fin(ParseNat(s))

FloatLess(f, g) ==
    CASE f.cls = "nan" \/ g.cls = "nan" -> FALSE
      [] f.cls = "-inf" -> g.cls # "-inf"
      [] f.cls = "+inf" -> FALSE
      [] g.cls = "+inf" -> TRUE
      [] g.cls = "-inf" -> FALSE
      [] OTHER -> f.n < g.n

\* the lines written for sample j, in output order
LinesOf(out, j) == SelectSeq(out, LAMBDA l : l.kind = "sample" /\ l.src = j)

\* the label pairs of a line, read back
KV(line) ==
    {<<PairKey(p), PairValue(p)>> : p \in SeqToSet(PairsOf(line.labels))}

LeOf(line) ==
    ParseFloat((CHOOSE kv \in KV(line) : kv[1] = LabelLe)[2])

HistogramLinesOK(m, L) ==
    LET nb == Len(m.Buckets)
        base == {<<key, m.Labels[key]>> : key \in DOMAIN m.Labels}
        ns == IF m.SampleSum # Nil THEN 1 ELSE 0
        nc == IF m.SampleCount # Nil THEN 1 ELSE 0
    IN  /\ Len(L) = nb + ns + nc
        /\ \A i \in 1..nb :
              /\ L[i].name = m.Name \o SuffixBucket
              /\ L[i].braces
              /\ \E kv \in KV(L[i]) : kv[1] = LabelLe
              /\ {kv \in KV(L[i]) : kv[1] # LabelLe} = base
              /\ Cardinality({n \in 1..nb :
                                 /\ LeOf(L[n]) = LeOf(L[i])
                                 /\ L[n].value = L[i].value})
                    = Cardinality({n \in 1..nb :
                                      /\ m.Buckets[n].UpperBound = LeOf(L[i])
                                      /\ m.Buckets[n].CumulativeCount
                                            = ParseNat(L[i].value)})
        /\ \A a, b \in 1..nb : a < b => FloatLess(LeOf(L[a]), LeOf(L[b]))
        /\ ns = 1 =>
              /\ L[nb + 1].name = m.Name \o SuffixSum
              /\ KV(L[nb + 1]) = base
              /\ L[nb + 1].braces = (base # {})
              /\ ParseFloat(L[nb + 1].value) = m.SampleSum[1]
        /\ nc = 1 =>
              /\ L[nb + ns + 1].name = m.Name \o SuffixCount
              /\ KV(L[nb + ns + 1]) = base
              /\ L[nb + ns + 1].braces = (base # {})
              /\ ParseNat(L[nb + ns + 1].value) = m.SampleCount[1]

\* C8: for a histogram sample the text output has one _bucket line per
\* bucket, in ascending order of upper bound, each with the base labels
\* plus le; then the _sum line iff SampleSum is set, then the _count line
\* iff SampleCount is set, both with the base labels only and without
\* braces when there are none.
C8_HistogramLines ==
    \A k \in 1..Len(stdout) :
        stdout[k].kind = "text" =>
            \A j \in 1..Len(fetches[k].results) :
                fetches[k].results[j].Type = "HISTOGRAM" =>
                    HistogramLinesOK(fetches[k].results[j],
                                     LinesOf(stdout[k].lines, j))

\* the source metric of a record: same family name, same labels
SourceOf(response, r) ==
    LET s == CHOOSE s \in SamplesOf(response) :
                 /\ response.fams[s[1]].name = r.Name
                 /\ LabelsOf(response.fams[s[1]].metric[s[2]]) = r.Labels
        metric == response.fams[s[1]].metric[s[2]]
    IN  IF r.Type = "HISTOGRAM" THEN metric.histogram[1] ELSE metric.summary[1]

\* C9: in a record Fetch returns, SampleCount and SampleSum are set only if
\* the document has the _count / _sum series of that histogram or summary;
\* when the document omits them they are nil, never a present zero.
C9_AbsentStaysAbsent ==
    \A k \in 1..Len(fetches) :
        Succeeded(fetches[k]) =>
            \A j \in 1..Len(fetches[k].results) :
                LET r == fetches[k].results[j]
                IN  r.Type \in {"HISTOGRAM", "SUMMARY"} =>
                        LET src == SourceOf(fetches[k].resp, r)
                        IN  /\ r.SampleCount # Nil => src.sample_count # Nil
                            /\ r.SampleSum # Nil => src.sample_sum # Nil

NaNGauges(md) ==
    {j \in 1..Len(md) : md[j].Type = "GAUGE" /\ md[j].Value = NaN}

\* C10: a gauge whose value is NaN is written as NaN in the text output
\* and as null in the JSON document, never as a string, and it never makes
\* the JSON serialization fail.
C10_NaNGauge ==
    \A k \in 1..Len(stdout) :
        cmd = "print" =>
            LET md == fetches[k].results
                chunk == stdout[k]
            IN  /\ chunk.kind = "text" =>
                      \A j \in NaNGauges(md) :
                          /\ Len(LinesOf(chunk.lines, j)) = 1
                          /\ LinesOf(chunk.lines, j)[1].value = <<78, 97, 78>>
                /\ chunk.kind = "json" =>
                      \A j \in NaNGauges(md) :
                          chunk.doc[j].value = <<110, 117, 108, 108>>
                /\ (chunk.kind = "jsonerr" /\ NaNGauges(md) # {}) =>
                      \E j \in 1..Len(md) : \E f \in FloatFields(md[j]) : IsInf(f)
                /\ (Succeeded(fetches[k]) /\ jsonOutput
                    /\ \A j \in 1..Len(md) : \A f \in FloatFields(md[j]) : ~IsInf(f))
                      => chunk.kind = "json"

\* a JSON document was printed for a list that holds a NaN gauge
C10_Witness ==
    \E k \in 1..Len(stdout) :
        /\ cmd = "print"
        /\ stdout[k].kind = "json"
        /\ NaNGauges(fetches[k].results) # {}

JsonNull == <<110, 117, 108, 108>>

\* the encoded float fields of one JSON object, next to the values they
\* encode
EncodedFloats(m, obj) ==
    {<<m.Value, obj.value>>}
    \cup {<<m.SampleSum[k], obj.sample_sum[k]>> : k \in 1..Len(m.SampleSum)}
    \cup {<<m.Buckets[k].UpperBound, obj.buckets[k].upper_bound>> :
             k \in 1..Len(m.Buckets)}
    \cup {<<m.Quantiles[k].Quantile, obj.quantiles[k].quantile>> :
             k \in 1..Len(m.Quantiles)}
    \cup {<<m.Quantiles[k].Value, obj.quantiles[k].value>> :
             k \in 1..Len(m.Quantiles)}

\* C11: with --json, the list of every successful Fetch is printed as a
\* JSON document, never as a marshaling error, and in it every float field
\* holding +Inf or -Inf (value, sample_sum, quantile, upper_bound) is
\* encoded as null.
C11_InfiniteIsNull ==
    \A k \in 1..Len(stdout) :
        (cmd = "print" /\ jsonOutput /\ Succeeded(fetches[k])) =>
            LET md == fetches[k].results
                chunk == stdout[k]
            IN  /\ chunk.kind = "json"
                /\ Len(chunk.doc) = Len(md)
                /\ \A j \in 1..Len(md) :
                      \A e \in EncodedFloats(md[j], chunk.doc[j]) :
                          IsInf(e[1]) => e[2] = JsonNull

\* the bytes of the lines: the lines without the index of the sample they
\* were written for
BytesOf(lines) == [n \in 1..Len(lines) |-> [lines[n] EXCEPT !.src = 0]]

\* what printPrometheusFormat writes for the response of Fetch call k under
\* every order of visiting the family map and both directions of ranging
\* over the label maps
TextOutputs(k) ==
    {BytesOf(printPrometheusFormat(
                 Fetch(fetches[k].url, metrics, labels, fetches[k].resp, order).results,
                 rev)) :
        order \in Orders(1..Len(fetches[k].resp.fams)), rev \in BOOLEAN}

\* C12: the text output is byte-stable: the lists Fetch returns for one
\* response under any two orders of visiting the family map (the samples of
\* a family keep their order), printed under any iteration order of the
\* label maps, give the same bytes, which are the bytes that were written.
C12_TextOutputByteStable ==
    \A k \in 1..Len(stdout) :
        stdout[k].kind = "text" => TextOutputs(k) = {BytesOf(stdout[k].lines)}

\* a text chunk for a list of two families that Fetch visited in the
\* order opposite to the document's, with samples of two labels
C12_Witness ==
    \E k \in 1..Len(stdout) :
        /\ stdout[k].kind = "text"
        /\ fetches[k].resp.fams = <<FamCounter, FamGauge>>
        /\ Len(fetches[k].results) = 3
        /\ fetches[k].results[1].Name = NameA1
        /\ \E n \in 1..Len(stdout[k].lines) :
              Len(PairsOf(stdout[k].lines[n].labels)) = 2

\* C13: every call to Fetch returns a list or an error: whenever Run waits
\* inside Fetch's client.Get, a step that ends the wait is possible (the
\* timeout of the client, at the latest), so a server that accepts the
\* connection and never responds cannot stop the run for ever.
C13_FetchAlwaysReturns == pc = "get" => ENABLED Next

\* the upper bounds never decrease along the bucket list
NonDecreasing(bounds) ==
    \A a, b \in 1..Len(bounds) : a < b => ~FloatLess(bounds[b], bounds[a])

\* the upper bounds of a parsed histogram, in document order
BoundsOf(h) == [n \in 1..Len(h.bucket) |-> h.bucket[n].upper_bound]

\* C14: in every histogram record of a successful Fetch the buckets are in
\* non-decreasing order of upper bound and end with the +Inf bucket when
\* the document has one, whatever the order of the document's _bucket
\* lines; a Fetch that would return a histogram whose document lists
\* decreasing bounds returns an error instead.
C14_BucketsNonDecreasing ==
    \A k \in 1..Len(fetches) :
        LET f == fetches[k]
        IN  /\ Succeeded(f) =>
                  \A j \in 1..Len(f.results) :
                      f.results[j].Type = "HISTOGRAM" =>
                          LET B == f.results[j].Buckets
                              src == SourceOf(f.resp, f.results[j])
                          IN  /\ NonDecreasing([n \in 1..Len(B) |-> B[n].UpperBound])
                              /\ (\E n \in 1..Len(src.bucket) :
                                      src.bucket[n].upper_bound = PosInf)
                                    => (B # <<>> /\ B[Len(B)].UpperBound = PosInf)
            /\ (/\ ~f.resp.neterr /\ f.resp.status = StatusOK /\ ~f.resp.parseErr
                /\ \E s \in SamplesOf(f.resp) :
                      LET family == f.resp.fams[s[1]]
                          metric == family.metric[s[2]]
                      IN  /\ PassesFilters(family, metric)
                          /\ metric.histogram # Nil
                          /\ ~NonDecreasing(BoundsOf(metric.histogram[1])))
                  => ~Succeeded(f)

RECURSIVE ReadValue(_, _, _)
\* the text format's reading of a quoted label value: s from index i, just
\* after the opening quote; \" \\ and \n are the escapes, an unescaped
\* quote ends the value, an unescaped newline (10) or another escape is an
\* error.  next: the index after the closing quote
ReadValue(s, i, acc) ==
    LET fail == [ok |-> FALSE, value |-> <<>>, next |-> 0]
    IN  IF i > Len(s) THEN fail
        ELSE IF s[i] = CharQuote THEN [ok |-> TRUE, value |-> acc, next |-> i + 1]
        ELSE IF s[i] = 10 THEN fail
        ELSE IF s[i] = 92
        THEN IF i + 1 > Len(s) THEN fail
             ELSE IF s[i + 1] \in {CharQuote, 92}
             THEN ReadValue(s, i + 2, Append(acc, s[i + 1]))
             ELSE IF s[i + 1] = 110 THEN ReadValue(s, i + 2, Append(acc, 10))
             ELSE fail
        ELSE ReadValue(s, i + 1, Append(acc, s[i]))

RECURSIVE ReadPairs(_, _)
\* the text format's reading of the pairs between the braces, from index i:
\* [ok, pairs], pairs the set of <<key, value>>
ReadPairs(s, i) ==
    LET fail == [ok |-> FALSE, pairs |-> {}]
        rest == SubSeq(s, i, Len(s))
        e == i - 1 + IndexOf(rest, CharEquals)
    IN  IF i > Len(s) THEN [ok |-> TRUE, pairs |-> {}]
        ELSE IF e + 1 > Len(s) \/ e = i THEN fail
        ELSE IF s[e + 1] # CharQuote THEN fail
        ELSE LET v == ReadValue(s, e + 2, <<>>)
                 pair == <<SubSeq(s, i, e - 1), v.value>>
             IN  IF ~v.ok THEN fail
                 ELSE IF v.next > Len(s) THEN [ok |-> TRUE, pairs |-> {pair}]
                 ELSE IF s[v.next] # CharComma THEN fail
                 ELSE LET more == ReadPairs(s, v.next + 1)
                      IN  IF more.ok
                          THEN [ok |-> TRUE, pairs |-> {pair} \cup more.pairs]
                          ELSE fail

\* a series of a document: name, label pairs, value
Series(name, pairs, value) ==
    [name |-> name, readable |-> TRUE, pairs |-> pairs, value |-> value]

\* the series a written line reads back to
ReadLine(line) ==
    LET r == ReadPairs(line.labels, 1)
    IN  [Series(line.name, r.pairs, ParseFloat(line.value))
            EXCEPT !.readable = r.ok]

\* the series of one metric in the source document
SourceSeries(family, metric) ==
    LET base == {<<lp.name, lp.value>> : lp \in SeqToSet(metric.label)}
        SumCount(h) ==
            {Series(family.name \o SuffixSum, base, h.sample_sum[n]) :
                n \in 1..Len(h.sample_sum)}
            \cup {Series(family.name \o SuffixCount, base, Fin(h.sample_count[n])) :
                     n \in 1..Len(h.sample_count)}
    IN  CASE metric.histogram # Nil ->
               LET h == metric.histogram[1]
               IN  {Series(family.name \o SuffixBucket,
                           base \cup {<<LabelLe, FormatG(h.bucket[n].upper_bound)>>},
                           Fin(h.bucket[n].cumulative_count)) :
                       n \in 1..Len(h.bucket)}
                   \cup SumCount(h)
          [] metric.summary # Nil ->
               LET q == metric.summary[1]
               IN  {Series(family.name,
                           base \cup {<<LabelQuantile, FormatG(q.quantile[n].quantile)>>},
                           q.quantile[n].value) :
                       n \in 1..Len(q.quantile)}
                   \cup SumCount(q)
          [] metric.counter # Nil -> {Series(family.name, base, metric.counter[1])}
          [] metric.gauge # Nil -> {Series(family.name, base, metric.gauge[1])}
          [] OTHER -> {Series(family.name, base, metric.untyped[1])}


\* the place in the document of the metric a record was built from
SourceSample(response, r) ==
    CHOOSE s \in SamplesOf(response) :
        /\ response.fams[s[1]].name = r.Name
        /\ LabelsOf(response.fams[s[1]].metric[s[2]]) = r.Labels

\* the lines written for record j read back to the series, and the header
\* lines to the HELP and TYPE, of the metric's family in the document
ReadsBack(response, md, out, j) ==
    LET s == SourceSample(response, md[j])
        family == response.fams[s[1]]
        L == LinesOf(out, j)
    IN  /\ {ReadLine(L[n]) : n \in 1..Len(L)}
              = SourceSeries(family, family.metric[s[2]])
        /\ Len(L) = Cardinality(SourceSeries(family, family.metric[s[2]]))
        /\ {out[n].text : n \in HeaderLines(out, "type", family.name)}
              = {ToLower(family.type)}
        /\ {out[n].text : n \in HeaderLines(out, "help", family.name)}
              = {family.help} \ {""}

\* C15: round trip: the text written for the records of a parsed document
\* reads back, by the rules of the text format, to the same families and
\* for every sample to the same series with the same label pairs and the
\* same values, also when a label value holds a double quote, a backslash
\* or a newline.
C15_RoundTrip ==
    \A k \in 1..Len(stdout) :
        stdout[k].kind = "text" =>
            \A j \in 1..Len(fetches[k].results) :
                ReadsBack(fetches[k].resp, fetches[k].results, stdout[k].lines, j)

\* the same, for documents whose label values need no escaping and whose
\* histograms and summaries have their _sum and _count series
C15_RoundTripOfPlainDocuments ==
    \A k \in 1..Len(stdout) :
        stdout[k].kind = "text" =>
            \A j \in 1..Len(fetches[k].results) :
                LET r == fetches[k].results[j]
                IN  (/\ \A key \in DOMAIN r.Labels :
                           \A n \in 1..Len(r.Labels[key]) :
                               r.Labels[key][n] \notin {CharQuote, 92, 10}
                     /\ r.Type \in {"HISTOGRAM", "SUMMARY"} =>
                           LET h == SourceOf(fetches[k].resp, r)
                           IN  h.sample_sum # Nil /\ h.sample_count # Nil)
                    => ReadsBack(fetches[k].resp, fetches[k].results,
                                 stdout[k].lines, j)

\* the _sum and _count lines among the lines written for m
SumCountOf(m, lines) ==
    SelectSeq(lines, LAMBDA l : l.name \in {m.Name \o SuffixSum,
                                            m.Name \o SuffixCount})

\* C16: Print leaves the sample's label map as it was: after every call
\* the map holds exactly the keys and values it had before the first (no
\* le, no quantile), the _sum and _count lines carry the original labels
\* only, and every later Print of the sample writes what the first wrote.
C16_PrintLeavesLabelsUnchanged ==
    fn = "Print" =>
        /\ labelsObj = argMetric.Labels
        /\ \A n \in 1..Len(printed) :
              /\ printed[n] = MetricDataPrint(argMetric, TRUE)
              /\ \A i \in 1..Len(SumCountOf(argMetric, printed[n])) :
                    SumCountOf(argMetric, printed[n])[i].labels
                        = formatLabels(argMetric.Labels,
                                       AscendingKeys(DOMAIN argMetric.Labels))

\* a histogram with a label and three buckets was printed twice
C16_Witness ==
    /\ fn = "Print"
    /\ Len(printed) = 2
    /\ argMetric.Type = "HISTOGRAM"
    /\ DOMAIN argMetric.Labels = {KeyM}
    /\ Len(argMetric.Buckets) = 3
    /\ Len(SumCountOf(argMetric, printed[2])) = 2

\* what the selection screen guarantees in model m
SelectionInvariant(m) ==
    LET n == Len(m.metrics)
        enter == metricSelectionUpdate(m, KeyMsg("enter"))
    IN  /\ n > 0
        /\ 0 <= m.cursor /\ m.cursor <= n - 1
        /\ DOMAIN m.selected \subseteq 0..(n - 1)
        /\ IF \E i \in 0..(n - 1) : IsSelected(m, i)
           THEN /\ enter.model.screen = "graph"
                /\ enter.model.selectedMetrics # <<>>
           ELSE enter = [model |-> m, cmd |-> "none"]

\* C17: in the selection screen, started with a non-empty metric list,
\* after any sequence of key and window-size messages the cursor is within
\* 0..len(metrics)-1, every index toggled with space (the keys of selected)
\* is an index of metrics, and enter switches to the graph screen only when
\* a metric is selected: with none selected it returns the selection model
\* unchanged, and the graph screen is only ever shown with selected names.
C17_SelectionScreen ==
    model # Nil =>
        LET m == model[1]
        IN  IF m.screen = "select" THEN SelectionInvariant(m)
            ELSE /\ m.selectedMetrics # <<>>
                 /\ \A k \in 1..Len(m.selectedMetrics) :
                       \E i \in 1..Len(allMetrics) :
                           allMetrics[i].Name = m.selectedMetrics[k]

\* the graph screen, reached with the last of several metrics selected
C17_Witness ==
    /\ model # Nil
    /\ model[1].screen = "graph"
    /\ Len(allMetrics) >= 2
    /\ model[1].selectedMetrics = <<allMetrics[Len(allMetrics)].Name>>

\* the selection screen in a sized window, with the cursor on the last of
\* two metrics and that one selected
C17_WitnessToggled ==
    /\ model # Nil
    /\ model[1].screen = "select"
    /\ Len(allMetrics) = 2
    /\ model[1].cursor = 1
    /\ model[1].selected = MapSet(<<>>, 1, TRUE)
    /\ model[1].viewport.Width > 0

\* graphCmd.Run starts the TUI program only with a list that is not empty,
\* on the selection screen with the cursor on the first metric
TuiStartsNonEmpty ==
    pc = "select" =>
        /\ Len(allMetrics) > 0
        /\ model = Some(NewSelectionModel(allMetrics))

====
